---- MODULE Spec2Model ----
(***************************************************************************)
(* g.extension.github: download an addon folder from the GRASS addons      *)
(* repository at a given reference into a temporary directory and hand it  *)
(* to g.extension.                                                         *)
(*                                                                         *)
(* Strings of the program (names, paths, URLs) are sequences of            *)
(* one-character strings, so that split, join, dirname and basename are    *)
(* computed as Python computes them.  The two host prefixes API_URL and    *)
(* RAW_URL are abbreviated; nothing in the program looks inside them.      *)
(***************************************************************************)
EXTENDS Integers, Sequences, FiniteSets, TLC

VARIABLES options, flags, remote, pc, new_repo_path, rm_folders, stack,
          exc, fs, requests, installer, exit_status, messages, hist

vars == <<options, flags, remote, pc, new_repo_path, rm_folders, stack,
          exc, fs, requests, installer, exit_status, messages, hist>>

Null == <<"<None>">>

(* ------------------------------ bounds -------------------------------- *)

\* deepest nesting of sub-directories below the extension folder
MaxDepth == 2
\* most files in one remote directory
MaxFiles == 1

(* ------------------------------ strings ------------------------------- *)

Slash == "/"

RECURSIVE Find(_, _, _)
\* first index >= i of character c in s, 0 when there is none
Find(s, c, i) ==
    IF i > Len(s) THEN 0
    ELSE IF s[i] = c THEN i
    ELSE Find(s, c, i + 1)

RECURSIVE FindLast(_, _, _)
\* last index <= i of character c in s, 0 when there is none
FindLast(s, c, i) ==
    IF i < 1 THEN 0
    ELSE IF s[i] = c THEN i
    ELSE FindLast(s, c, i - 1)

RECURSIVE Split(_, _)
\* str.split(sep)
Split(s, sep) ==
    LET i == Find(s, sep, 1)
    IN  IF i = 0 THEN <<s>>
        ELSE <<SubSeq(s, 1, i - 1)>> \o Split(SubSeq(s, i + 1, Len(s)), sep)

\* str.split(sep, 1)[0]
SplitFirst(s, sep) ==
    LET i == Find(s, sep, 1)
    IN  IF i = 0 THEN s ELSE SubSeq(s, 1, i - 1)

\* seq[n:]
Drop(seq, n) == SubSeq(seq, n + 1, Len(seq))

RECURSIVE os_path_join(_, _)
\* os.path.join(base, *parts)
os_path_join(base, parts) ==
    IF parts = <<>> THEN base
    ELSE LET p == Head(parts)
             joined == IF p # <<>> /\ p[1] = Slash THEN p
                       ELSE IF base = <<>> \/ base[Len(base)] = Slash
                            THEN base \o p
                            ELSE base \o <<Slash>> \o p
         IN  os_path_join(joined, Tail(parts))

RECURSIVE RStripSlash(_)
RStripSlash(s) ==
    IF s # <<>> /\ s[Len(s)] = Slash THEN RStripSlash(SubSeq(s, 1, Len(s) - 1))
    ELSE s

\* os.path.dirname(path)
dirname(path) ==
    LET i == FindLast(path, Slash, Len(path))
        head == SubSeq(path, 1, i)
    IN  IF RStripSlash(head) = <<>> THEN head ELSE RStripSlash(head)

\* os.path.basename(path)
basename(path) ==
    LET i == FindLast(path, Slash, Len(path))
    IN  SubSeq(path, i + 1, Len(path))

\* path is folder itself or lies below it
IsUnder(path, folder) ==
    \/ path = folder
    \/ /\ Len(path) > Len(folder)
       /\ SubSeq(path, 1, Len(folder) + 1) = folder \o <<Slash>>

RECURSIVE Ancestors(_)
\* path and every directory above it
Ancestors(path) ==
    IF path = <<>> \/ dirname(path) = path THEN {path}
    ELSE {path} \cup Ancestors(dirname(path))

Digit == <<"0", "1", "2", "3", "4", "5", "6", "7", "8", "9">>

(* ----------------------------- constants ------------------------------ *)

API_URL == <<"a", "p", "i", ":">>
RAW_URL == <<"r", "a", "w", ":">>

\* default of the lstrip parameter of download_git
Lstrip == 2

DefaultReference == <<"m", "a", "i", "n">>

class_table ==
    (<<"d">> :> <<"d", "i", "s", "p", "l", "a", "y">>) @@
    (<<"d", "b">> :> <<"d", "b">>) @@
    (<<"g">> :> <<"g", "e", "n", "e", "r", "a", "l">>) @@
    (<<"i">> :> <<"i", "m", "a", "g", "e", "r", "y">>) @@
    (<<"m">> :> <<"m", "i", "s", "c">>) @@
    (<<"p", "s">> :> <<"p", "o", "s", "t", "s", "c", "r", "i", "p", "t">>) @@
    (<<"p">> :> <<"p", "a", "i", "n", "t">>) @@
    (<<"r">> :> <<"r", "a", "s", "t", "e", "r">>) @@
    (<<"r", "3">> :> <<"r", "a", "s", "t", "e", "r", "3", "d">>) @@
    (<<"s">> :> <<"s", "i", "t", "e", "s">>) @@
    (<<"t">> :> <<"t", "e", "m", "p", "o", "r", "a", "l">>) @@
    (<<"v">> :> <<"v", "e", "c", "t", "o", "r">>) @@
    (<<"w", "x">> :> <<"g", "u", "i", "/", "w", "x", "p", "y", "t", "h", "o", "n">>)

get_module_class(module_name) ==
    LET class_letters == SplitFirst(module_name, ".")
    IN  IF class_letters \in DOMAIN class_table
        THEN class_table[class_letters]
        ELSE class_letters

\* "src/{}/{}".format(ext_type, extension)
extension_folder(extension) ==
    <<"s", "r", "c", "/">> \o get_module_class(extension) \o <<Slash>> \o extension

\* f"{API_URL}/{extension_folder}"
gitapi_url_of(extension) == API_URL \o <<Slash>> \o extension_folder(extension)

\* f"{RAW_URL}/{reference}/src/{ext_type}/{extension}"
git_url_of(extension, reference) ==
    RAW_URL \o <<Slash>> \o reference \o <<"/", "s", "r", "c", "/">>
        \o get_module_class(extension) \o <<Slash>> \o extension

\* f"{gitapi_url}?ref={reference}"
listing_url(gitapi_url, reference) ==
    gitapi_url \o <<"?", "r", "e", "f", "=">> \o reference

(* --------------------------- the remote side -------------------------- *)

\* extension names given on the command line: one of a tabulated class,
\* one whose class maps to a two-component folder, one of an unknown class
Extensions ==
    { <<"i", ".", "s", "e", "n", "t", "i", "n", "e", "l">>,
      <<"w", "x", ".", "m", "e", "t", "a", "d", "a", "t", "a">>,
      <<"x", ".", "d", "e", "m", "o">> }

CommitHash == <<"a", "f", "f", "6", "9", "a">>
UnknownReference == <<"n", "o", "h", "a", "s", "h">>

\* references the user may give, and those the remote repository knows
References == {DefaultReference, CommitHash, UnknownReference}
ExistingReferences == {DefaultReference, CommitHash}

\* One directory of the remote tree: its number of files and whether its
\* sub-directory sorts before the files ("d") or after them ("t").
Level == [nfiles : 0..MaxFiles, dirFirst : BOOLEAN]

\* A remote tree below the extension folder is a chain of directories;
\* the empty chain means the folder does not exist in the repository.
\* The sub-directories of one tree all sort the same way, and the flag of
\* the last directory, which has no sub-directory, is left FALSE.
Trees ==
    UNION { { t \in [1..n -> Level] :
                /\ n > 0 => ~t[n].dirFirst
                /\ \A i, j \in 1..(n - 1) : t[i].dirFirst = t[j].dirFirst } :
            n \in 0..(MaxDepth + 1) }

SubName(level) == IF level.dirFirst THEN <<"d">> ELSE <<"t">>
FileName(i) == <<"f", Digit[i]>>

RECURSIVE DirPath(_, _, _)
\* repository path of the k-th directory of the chain
DirPath(root, tree, k) ==
    IF k = 1 THEN root
    ELSE DirPath(root, tree, k - 1) \o <<Slash>> \o SubName(tree[k - 1])

\* entries of the contents API: files carry a download_url, directories null
FileEntry(dir, name, ref) ==
    [name |-> name,
     path |-> dir \o <<Slash>> \o name,
     download_url |-> RAW_URL \o <<Slash>> \o ref \o <<Slash>> \o dir \o <<Slash>> \o name]

DirEntry(dir, name) ==
    [name |-> name, path |-> dir \o <<Slash>> \o name, download_url |-> Null]

\* the listing of the k-th directory, in the API's (alphabetical) order
Listing(root, tree, k, ref) ==
    LET dir == DirPath(root, tree, k)
        files == [i \in 1..tree[k].nfiles |-> FileEntry(dir, FileName(i), ref)]
        sub == IF k < Len(tree) THEN <<DirEntry(dir, SubName(tree[k]))>> ELSE <<>>
    IN  IF tree[k].dirFirst THEN sub \o files ELSE files \o sub

\* where the repository keeps the folder of an extension
RepoFolder(extension) == extension_folder(extension)

\* every entry of the remote tree of an extension at a reference
RemoteEntries(extension, tree, ref) ==
    UNION { { Listing(RepoFolder(extension), tree, k, ref)[j] :
                j \in 1..Len(Listing(RepoFolder(extension), tree, k, ref)) } :
            k \in 1..Len(tree) }

RemoteLeaves(extension, tree, ref) ==
    { e \in RemoteEntries(extension, tree, ref) : e.download_url # Null }

\* remote directories with zero entries (the extension folder included)
RemoteEmptyDirs(extension, tree) ==
    { DirPath(RepoFolder(extension), tree, k) :
        k \in { j \in 1..Len(tree) : j = Len(tree) /\ tree[j].nfiles = 0 } }

\* the answer of the contents API to GET url
ApiTargets(extension, tree) ==
    { [k |-> k, ref |-> r] : k \in 1..Len(tree), r \in ExistingReferences }

ApiHas(extension, tree, url) ==
    \E t \in ApiTargets(extension, tree) :
        url = listing_url(API_URL \o <<Slash>> \o DirPath(RepoFolder(extension), tree, t.k), t.ref)

ApiContent(extension, tree, url) ==
    LET t == CHOOSE x \in ApiTargets(extension, tree) :
                url = listing_url(API_URL \o <<Slash>> \o DirPath(RepoFolder(extension), tree, x.k), x.ref)
    IN  Listing(RepoFolder(extension), tree, t.k, t.ref)

\* the raw host serves url
RawHas(extension, tree, url) ==
    \E r \in ExistingReferences :
        \E e \in RemoteLeaves(extension, tree, r) :
            url = RAW_URL \o <<Slash>> \o r \o <<Slash>> \o e.path

\* outcomes of one listing request and of one raw-file request
ListingOutcomes(extension, tree, url) ==
    IF ApiHas(extension, tree, url) THEN {"200", "403", "network"} ELSE {"404", "network"}

RawOutcomes(extension, tree, url) ==
    IF RawHas(extension, tree, url) THEN {"200", "429", "network"} ELSE {"404", "network"}

(* ------------------------------ the run ------------------------------- *)

\* the directory grass.tempdir() creates
TempDir == <<"/", "t", "m", "p", "/", "1">>

\* exit statuses the installer g.extension may return
InstallerStatus == {0, 1, 2}

NoException == "none"

Init ==
    /\ options \in [extension : Extensions,
                    operation : {"add", "remove"},
                    reference : References]
    /\ flags \in [f : BOOLEAN, s : BOOLEAN]
    /\ remote \in Trees
    /\ pc = "main"
    /\ new_repo_path = Null
    /\ rm_folders = <<>>
    /\ stack = <<>>
    /\ exc = NoException
    /\ fs = [dirs |-> {}, files |-> {}]
    /\ requests = <<>>
    /\ installer = [calls |-> <<>>, running |-> FALSE, returncode |-> -1]
    /\ exit_status = -1
    /\ messages = {}
    /\ hist = [written |-> {}, made |-> {}, rmtree |-> <<>>, download_git |-> 0]

\* gextension_flags: "f" and "s" appended when the flags are set
gextension_flags(fl) ==
    (IF fl.f THEN <<"f">> ELSE <<>>) \o (IF fl.s THEN <<"s">> ELSE <<>>)

\* main testing the reference before the operation
Branch_reference_first(operation, reference) ==
    IF reference # DefaultReference THEN "add_reference"
    ELSE IF operation = "remove" THEN "remove"
    ELSE "add_default"

\* the branch main takes
Branch(operation, reference) ==
    IF operation = "remove" THEN "remove"
    ELSE IF operation = "add" /\ reference = DefaultReference THEN "add_default"
    ELSE IF operation = "add" /\ reference # DefaultReference THEN "add_reference"
    ELSE "nothing"

\* grass.run_command("g.extension", ...) starts the installer
run_command(args) ==
    installer' = [installer EXCEPT !.calls = Append(@, args), !.running = TRUE]

\* operation=remove: g.extension is called by name
MainRemove ==
    /\ pc = "main"
    /\ Branch(options.operation, options.reference) = "remove"
    /\ run_command([extension |-> options.extension, operation |-> options.operation,
                    flags |-> gextension_flags(flags), url |-> Null])
    /\ pc' = "installer"
    /\ UNCHANGED <<options, flags, remote, new_repo_path, rm_folders, stack, exc, fs,
                   requests, exit_status, messages, hist>>

\* operation=add, reference=main: g.extension is called by name
MainAddDefault ==
    /\ pc = "main"
    /\ Branch(options.operation, options.reference) = "add_default"
    /\ run_command([extension |-> options.extension, operation |-> options.operation,
                    flags |-> gextension_flags(flags), url |-> Null])
    /\ pc' = "installer"
    /\ UNCHANGED <<options, flags, remote, new_repo_path, rm_folders, stack, exc, fs,
                   requests, exit_status, messages, hist>>

\* a call of download_git: its arguments and the entries still to visit
Frame(gitapi_url, git_url) ==
    [gitapi_url |-> gitapi_url, git_url |-> git_url, listed |-> FALSE, content |-> <<>>]

\* operation=add with another reference: temporary directory, then download_git
MainAddReference ==
    /\ pc = "main"
    /\ Branch(options.operation, options.reference) = "add_reference"
    /\ new_repo_path' = TempDir
    /\ fs' = [fs EXCEPT !.dirs = @ \cup {TempDir}]
    /\ rm_folders' = Append(rm_folders, TempDir)
    /\ stack' = <<Frame(gitapi_url_of(options.extension),
                        git_url_of(options.extension, options.reference))>>
    /\ hist' = [hist EXCEPT !.download_git = @ + 1]
    /\ pc' = "download_git"
    /\ UNCHANGED <<options, flags, remote, exc, requests, installer, exit_status, messages>>

Top == stack[Len(stack)]
Pop == SubSeq(stack, 1, Len(stack) - 1)

\* urlopen_with_auth answers 200: the listing is parsed
urlopen_with_auth ==
    /\ pc = "download_git"
    /\ stack # <<>>
    /\ ~Top.listed
    /\ LET url == listing_url(Top.gitapi_url, options.reference)
       IN  /\ "200" \in ListingOutcomes(options.extension, remote, url)
           /\ requests' = Append(requests, [kind |-> "listing", url |-> url, result |-> "200"])
           /\ stack' = [stack EXCEPT ![Len(stack)] =
                            [@ EXCEPT !.listed = TRUE,
                                      !.content = ApiContent(options.extension, remote, url)]]
    /\ UNCHANGED <<options, flags, remote, pc, new_repo_path, rm_folders, exc, fs,
                   installer, exit_status, messages, hist>>

\* download_git swallowing the error of urlopen as an empty listing
urlopen_raises_swallowed ==
    /\ pc = "download_git"
    /\ stack # <<>>
    /\ ~Top.listed
    /\ LET url == listing_url(Top.gitapi_url, options.reference)
       IN  \E outcome \in ListingOutcomes(options.extension, remote, url) \ {"200"} :
             requests' = Append(requests, [kind |-> "listing", url |-> url, result |-> outcome])
    /\ stack' = [stack EXCEPT ![Len(stack)] = [@ EXCEPT !.listed = TRUE, !.content = <<>>]]
    /\ UNCHANGED <<options, flags, remote, pc, new_repo_path, rm_folders, exc, fs,
                   installer, exit_status, messages, hist>>

\* urlopen raises (HTTP error status or no connection): every frame unwinds
\* to the try block of main
urlopen_raises ==
    /\ pc = "download_git"
    /\ stack # <<>>
    /\ ~Top.listed
    /\ LET url == listing_url(Top.gitapi_url, options.reference)
       IN  \E outcome \in ListingOutcomes(options.extension, remote, url) \ {"200"} :
             /\ requests' = Append(requests, [kind |-> "listing", url |-> url, result |-> outcome])
             /\ exc' = IF outcome = "network" THEN "URLError" ELSE "HTTPError"
    /\ stack' = <<>>
    /\ pc' = "except"
    /\ UNCHANGED <<options, flags, remote, new_repo_path, rm_folders, fs,
                   installer, exit_status, messages, hist>>

\* os.path.join(tmp_dir, *element["path"].split("/")[lstrip:])
local_path(tmp_dir, element_path) ==
    os_path_join(tmp_dir, Drop(Split(element_path, Slash), Lstrip))

\* download_git making the element's own path a directory
dir_to_make_self(path) == path

\* the directory download_git makes sure exists before it handles an element
dir_to_make(path) == dirname(path)

\* os.makedirs(d) unless d exists: d and its missing parents below the
\* temporary directory
makedirs(dirs, d) ==
    IF d \in dirs THEN {}
    ELSE { a \in Ancestors(d) : IsUnder(a, TempDir) /\ a \notin dirs }

\* urlretrieve_with_auth: the file is written when the status is 200
retrieved(status, path) == IF status = "200" THEN {path} ELSE {}

\* an element with a download_url: its file is fetched
ElementFile ==
    /\ pc = "download_git"
    /\ stack # <<>>
    /\ Top.listed
    /\ Top.content # <<>>
    /\ LET element == Head(Top.content)
           path == local_path(new_repo_path, element.path)
           made == makedirs(fs.dirs, dir_to_make(path))
           url == Top.git_url \o <<Slash>> \o basename(element.download_url)
       IN  /\ element.download_url # Null
           /\ \E outcome \in RawOutcomes(options.extension, remote, url) :
                /\ requests' = Append(requests, [kind |-> "raw", url |-> url, result |-> outcome])
                /\ IF outcome = "network"
                   THEN /\ exc' = "ConnectionError"
                        /\ stack' = <<>>
                        /\ pc' = "except"
                        /\ fs' = [fs EXCEPT !.dirs = @ \cup made]
                        /\ hist' = [hist EXCEPT !.made = @ \cup made]
                   ELSE /\ fs' = [dirs |-> fs.dirs \cup made,
                                  files |-> fs.files \cup retrieved(outcome, path)]
                        /\ hist' = [hist EXCEPT !.made = @ \cup made,
                                                !.written = @ \cup retrieved(outcome, path)]
                        /\ stack' = [stack EXCEPT ![Len(stack)].content = Tail(@)]
                        /\ UNCHANGED <<exc, pc>>
    /\ UNCHANGED <<options, flags, remote, new_repo_path, rm_folders,
                   installer, exit_status, messages>>

\* an element without download_url: download_git calls itself for it
ElementDir ==
    /\ pc = "download_git"
    /\ stack # <<>>
    /\ Top.listed
    /\ Top.content # <<>>
    /\ LET element == Head(Top.content)
           path == local_path(new_repo_path, element.path)
           made == makedirs(fs.dirs, dir_to_make(path))
       IN  /\ element.download_url = Null
           /\ fs' = [fs EXCEPT !.dirs = @ \cup made]
           /\ hist' = [hist EXCEPT !.made = @ \cup made, !.download_git = @ + 1]
           /\ stack' = Append([stack EXCEPT ![Len(stack)].content = Tail(@)],
                              Frame(Top.gitapi_url \o <<Slash>> \o element.name,
                                    Top.git_url \o <<Slash>> \o element.name))
    /\ UNCHANGED <<options, flags, remote, pc, new_repo_path, rm_folders, exc,
                   requests, installer, exit_status, messages>>

\* the loop of a download_git call is done: it returns to its caller
download_git_returns ==
    /\ pc = "download_git"
    /\ stack # <<>>
    /\ Top.listed
    /\ Top.content = <<>>
    /\ stack' = Pop
    /\ pc' = IF Len(stack) = 1 THEN "fetched" ELSE "download_git"
    /\ UNCHANGED <<options, flags, remote, new_repo_path, rm_folders, exc, fs,
                   requests, installer, exit_status, messages, hist>>

\* main warning about the failed fetch and going on to the installer
fetch_fatal_warns ==
    /\ pc = "except"
    /\ messages' = messages \cup {"warning: Could not find extension in repository"}
    /\ pc' = "fetched"
    /\ UNCHANGED <<options, flags, remote, new_repo_path, rm_folders, stack, exc, fs,
                   requests, installer, exit_status, hist>>

\* except Exception: grass.fatal prints the message and exits with status 1
fetch_fatal ==
    /\ pc = "except"
    /\ messages' = messages \cup {"fatal: Could not find extension in repository"}
    /\ exit_status' = 1
    /\ pc' = "atexit"
    /\ UNCHANGED <<options, flags, remote, new_repo_path, rm_folders, stack, exc, fs,
                   requests, installer, hist>>

\* main removing the temporary directory before it calls g.extension
install_fetched_removed ==
    /\ pc = "fetched"
    /\ fs' = [dirs |-> { p \in fs.dirs : ~IsUnder(p, new_repo_path) },
              files |-> { p \in fs.files : ~IsUnder(p, new_repo_path) }]
    /\ hist' = [hist EXCEPT !.rmtree = Append(@, [folder |-> new_repo_path, existed |-> TRUE])]
    /\ run_command([extension |-> options.extension, operation |-> options.operation,
                    flags |-> gextension_flags(flags),
                    url |-> os_path_join(new_repo_path, <<options.extension>>)])
    /\ pc' = "installer"
    /\ UNCHANGED <<options, flags, remote, new_repo_path, rm_folders, stack, exc,
                   requests, exit_status, messages>>

\* the fetched folder is handed to g.extension
install_fetched ==
    /\ pc = "fetched"
    /\ run_command([extension |-> options.extension, operation |-> options.operation,
                    flags |-> gextension_flags(flags),
                    url |-> os_path_join(new_repo_path, <<options.extension>>)])
    /\ pc' = "installer"
    /\ UNCHANGED <<options, flags, remote, new_repo_path, rm_folders, stack, exc, fs,
                   requests, exit_status, messages, hist>>

\* main passing the return code of g.extension on to sys.exit
status_after_mirrored(returncode) == returncode

\* exit status of the script once run_command is back: main returns None
\* (status 0), a non-zero return code raises CalledModuleError, which nothing
\* catches (status 1)
status_after(returncode) == IF returncode = 0 THEN 0 ELSE 1

\* g.extension ends with some return code
installer_returns ==
    /\ pc = "installer"
    /\ installer.running
    /\ \E rc \in InstallerStatus :
         /\ installer' = [installer EXCEPT !.running = FALSE, !.returncode = rc]
         /\ exit_status' = status_after(rc)
         /\ exc' = IF rc = 0 THEN exc ELSE "CalledModuleError"
    /\ pc' = "atexit"
    /\ UNCHANGED <<options, flags, remote, new_repo_path, rm_folders, stack, fs,
                   requests, messages, hist>>

\* the folders cleanup removes: those of rm_folders that are directories
to_remove(folders, dirs) == SelectSeq(folders, LAMBDA f : f \in dirs)

Range(seq) == { seq[i] : i \in 1..Len(seq) }

\* os.rmdir in place of shutil.rmtree: the folder goes, its content stays
rmtree_rmdir(paths, gone) == { p \in paths : p \notin Range(gone) }

\* shutil.rmtree of every folder of gone
rmtree(paths, gone) == { p \in paths : \A g \in Range(gone) : ~IsUnder(p, g) }

\* the atexit hook
cleanup ==
    /\ pc = "atexit"
    /\ LET gone == to_remove(rm_folders, fs.dirs)
       IN  /\ fs' = [dirs |-> rmtree(fs.dirs, gone), files |-> rmtree(fs.files, gone)]
           /\ hist' = [hist EXCEPT !.rmtree =
                          @ \o [i \in 1..Len(gone) |->
                                  [folder |-> gone[i], existed |-> gone[i] \in fs.dirs]]]
    /\ messages' = messages \cup {"Cleaning up..."}
    /\ pc' = "exited"
    /\ UNCHANGED <<options, flags, remote, new_repo_path, rm_folders, stack, exc,
                   requests, installer, exit_status>>

Next ==
    \/ MainRemove
    \/ MainAddDefault
    \/ MainAddReference
    \/ urlopen_with_auth
    \/ urlopen_raises
    \/ ElementFile
    \/ ElementDir
    \/ download_git_returns
    \/ fetch_fatal
    \/ install_fetched
    \/ installer_returns
    \/ cleanup

Spec == Init /\ [][Next]_vars

(* ------------------------------ properties ---------------------------- *)

\* the run downloads: operation=add with a reference other than main
Fetching == options.operation = "add" /\ options.reference # DefaultReference

\* the reference or the extension folder does not exist remotely
TargetMissing == options.reference \notin ExistingReferences \/ remote = <<>>

\* a request of the fetch did not answer 200
Failed == \E i \in 1..Len(requests) : requests[i].result # "200"

FetchErrors == {"HTTPError", "URLError", "ConnectionError"}

\* local paths of the leaves of the remote tree
LeafPaths ==
    { local_path(TempDir, e.path) :
        e \in RemoteLeaves(options.extension, remote, options.reference) }

\* C1: when download_git returns without raising, the files under the
\* destination directory are exactly the leaves of the remote tree, each at
\* its path minus the stripped components; no leaf is missing, also when a
\* raw-file request answers with a status other than 200, and no file is extra.
C1_FetchedExactlyLeaves ==
    pc = "fetched" => fs.files = LeafPaths

\* C2: in a run that created a temporary directory, nothing of it is left
\* once the process has exited, whichever way the run ended.
C2_TempDirGoneAtExit ==
    (pc = "exited" /\ new_repo_path # Null) =>
        \A p \in fs.dirs \cup fs.files : ~IsUnder(p, new_repo_path)

C2_Witness ==
    /\ pc = "exited"
    /\ new_repo_path # Null
    /\ hist.written # {}
    /\ installer.returncode > 0

\* C3: when download_git raises, the run ends with a fatal message and a
\* non-zero exit status, and g.extension is never called.
C3_FetchFailureIsFatal ==
    exc \in FetchErrors =>
        /\ installer.calls = <<>>
        /\ pc \in {"except", "atexit", "exited"}
        /\ pc \in {"atexit", "exited"} =>
              /\ "fatal: Could not find extension in repository" \in messages
              /\ exit_status > 0

C3_Witness ==
    /\ pc = "exited"
    /\ exc = "ConnectionError"
    /\ hist.written # {}
    /\ Len(requests) > 2

\* C4: download_git is called and a source path is passed to g.extension if
\* and only if operation=add and the reference is not main; otherwise no
\* temporary directory is made, no request is sent and g.extension is called
\* exactly once with extension, operation and flags and without a path, flag f
\* going on as f and flag s as s.
C4_FetchOnlyForAddWithReference ==
    /\ hist.download_git > 0 <=> (pc # "main" /\ Fetching)
    /\ \A i \in 1..Len(installer.calls) : installer.calls[i].url # Null <=> Fetching
    /\ Len(installer.calls) <= 1
    /\ ~Fetching =>
          /\ new_repo_path = Null
          /\ rm_folders = <<>>
          /\ fs = [dirs |-> {}, files |-> {}]
          /\ requests = <<>>
          /\ pc # "main" =>
                /\ Len(installer.calls) = 1
                /\ installer.calls[1].extension = options.extension
                /\ installer.calls[1].operation = options.operation
                /\ installer.calls[1].url = Null
                /\ "f" \in Range(installer.calls[1].flags) <=> flags.f
                /\ "s" \in Range(installer.calls[1].flags) <=> flags.s
                /\ Range(installer.calls[1].flags) \subseteq {"f", "s"}

C4_Witness ==
    /\ pc = "exited"
    /\ options.operation = "remove"
    /\ options.reference = CommitHash
    /\ flags.f
    /\ ~flags.s
    /\ installer.calls[1].flags = <<"f">>

\* C5: after a successful fetch the first listing is that of
\* src/<category>/<extension>, and the path handed to g.extension is
\* <temporary directory>/<extension>, the directory that holds every file
\* the fetch wrote, for every extension name.
C5_InstallerGetsFetchedFolder ==
    \A i \in 1..Len(installer.calls) :
        installer.calls[i].url # Null =>
            /\ requests[1].url =
                  listing_url(API_URL \o <<"/", "s", "r", "c", "/">>
                                  \o get_module_class(options.extension)
                                  \o <<Slash>> \o options.extension,
                              options.reference)
            /\ installer.calls[i].url = TempDir \o <<Slash>> \o options.extension
            /\ \A f \in hist.written : IsUnder(f, installer.calls[i].url)

\* C6 as claimed: the exit status of the process is that of g.extension.
C6_ExitMirrorsInstaller ==
    (pc \in {"atexit", "exited"} /\ installer.calls # <<>>) =>
        exit_status = installer.returncode

\* C6: whenever g.extension was called, the process exits with status 0 when
\* g.extension succeeded and with status 1 when it failed, whatever non-zero
\* status g.extension itself returned.
C6_ExitZeroIffInstallerSucceeded ==
    (pc \in {"atexit", "exited"} /\ installer.calls # <<>>) =>
        /\ installer.returncode = 0 => exit_status = 0
        /\ installer.returncode # 0 => exit_status = 1

C6_Witness ==
    /\ pc = "exited"
    /\ installer.returncode = 2
    /\ exit_status = 1

\* C7: fetching a reference or a folder that does not exist remotely fails on
\* the first listing request, with the not-found answer of the API whenever
\* the API answered, and no file and no directory has been written by then.
C7_MissingTargetFailsFirst ==
    (Fetching /\ TargetMissing /\ requests # <<>>) =>
        /\ Len(requests) = 1
        /\ requests[1].kind = "listing"
        /\ requests[1].result \in {"404", "network"}
        /\ requests[1].result = "404" <=> exc = "HTTPError"
        /\ exc \in {"HTTPError", "URLError"}
        /\ pc \in {"except", "atexit", "exited"}
        /\ hist.written = {}
        /\ hist.made = {}

C7_Witness ==
    /\ pc = "except"
    /\ options.reference = UnknownReference
    /\ Len(remote) > 0
    /\ requests[1].result = "404"
    /\ fs.dirs = {TempDir}

\* C8: no file is ever written at the local path of an entry whose
\* download_url is null, and a remote directory without entries never gets a
\* local path.
C8_NoFileAtDirectoryEntry ==
    /\ \A e \in RemoteEntries(options.extension, remote, options.reference) :
          e.download_url = Null => local_path(TempDir, e.path) \notin hist.written
    /\ \A d \in RemoteEmptyDirs(options.extension, remote) :
          local_path(TempDir, d) \notin hist.made \cup hist.written \cup fs.dirs \cup fs.files

C8_Witness ==
    /\ pc = "fetched"
    /\ Len(remote) = 3
    /\ remote[3].nfiles = 0
    /\ remote[2].nfiles > 0
    /\ Cardinality(fs.files) > 1

\* C9: an error on any request of the fetch, listing or raw file, at any
\* depth, aborts the fetch: the error reaches main, and after the first
\* failed request no request is sent and no file is written.
C9_AnyErrorAbortsFetch ==
    [][/\ Failed' => (exc' \in FetchErrors /\ pc' \in {"except", "atexit", "exited"})
       /\ Failed => (requests' = requests /\ hist'.written = hist.written)]_vars

\* C10: the temporary directory is removed exactly once and only by cleanup
\* after g.extension is back: while g.extension runs the directory and the
\* fetched files exist, and rmtree is never called for a directory that is gone.
C10_RemovedOnceAfterInstaller ==
    /\ [](/\ Len(hist.rmtree) <= 1
          /\ \A i \in 1..Len(hist.rmtree) : hist.rmtree[i].existed
          /\ (pc = "exited" /\ new_repo_path # Null) =>
                hist.rmtree = <<[folder |-> new_repo_path, existed |-> TRUE]>>
          /\ (pc = "installer" /\ new_repo_path # Null) =>
                /\ new_repo_path \in fs.dirs
                /\ hist.written \subseteq fs.files)
    /\ [][~(fs.dirs \subseteq fs'.dirs /\ fs.files \subseteq fs'.files)
            => (pc = "atexit" /\ ~installer.running)]_vars

C10_Witness ==
    /\ pc = "exited"
    /\ new_repo_path # Null
    /\ installer.returncode = 0
    /\ hist.written # {}
    /\ Len(hist.rmtree) = 1

====
